---------------------------- MODULE Spec2Model ----------------------------
(***************************************************************************)
(* A model of darkroom's image manipulation core:                          *)
(*   - the manipulator (service package): Process, CleanInt, GetCropPoint  *)
(*   - the two BildProcessor adapters (package native): Crop, Resize,      *)
(*     GrayScale, decode, encode, and the row-parallel grayScale           *)
(* Strings that are parsed (w, h) are sequences of one-character strings;  *)
(* strings that are only compared (fit, crop, mono) are TLA+ strings.      *)
(***************************************************************************)
EXTENDS Integers, Sequences, FiniteSets, TLC

VARIABLES
    \* ---- the build -----------------------------------------------------
    intSize,      \* strconv.IntSize of the build: 32 or 64
    \* ---- normalizer calls (CleanInt / GetCropPoint) ---------------------
    fn,           \* which function is called: "CleanInt" | "GetCropPoint"
    numArg,       \* the argument of CleanInt (sequence of characters)
    numVal,       \* v when numArg was made as str(v), else -1
    anchorArg,    \* the argument of GetCropPoint
    normPc,       \* "call" before the call, "ret" after it
    cleaned,      \* CleanInt's result
    point,        \* GetCropPoint's result
    \* ---- one Process call ----------------------------------------------
    impl,         \* the Processor wired into the manipulator
    spec,         \* the ProcessSpec argument
    pc,           \* position in Process
    data,         \* local variable data
    err,          \* local variable err
    calls,        \* the Processor calls made so far, with their errors
    metricsLog,   \* every metrics.Update made so far
    encodes,      \* every encode call made so far
    ret,          \* what Process returned
    \* ---- one direct adapter call (Crop / Resize) -------------------------
    adPc,         \* "call" | "ret"
    adArgs,       \* the arguments of the call
    adRes,        \* what the call computed and returned
    \* ---- one grayScale call --------------------------------------------
    procs,        \* runtime.GOMAXPROCS(0)
    src,          \* the source image: [w, h, pix]
    dst,          \* the destination pixels: (x, y) -> pixel or NoPixel
    writes,       \* (x, y) -> the workers that wrote dst at (x, y), in order
    counter,      \* parallel.Line's counter
    workers,      \* the spawned workers: [start, end, y, x, done]
    grayPc        \* "start" | "spawn" | "wait" | "done"

normVars == <<fn, numArg, numVal, anchorArg, normPc, cleaned, point>>
procVars == <<impl, spec, pc, data, err, calls, metricsLog, encodes, ret>>
adVars   == <<adPc, adArgs, adRes>>
grayVars == <<procs, src, dst, writes, counter, workers, grayPc>>
vars     == <<intSize, normVars, procVars, adVars, grayVars>>

-----------------------------------------------------------------------------
(* Bounds of the model *)

\* longest generated numeric parameter string
MaxLen == 3
\* largest image side and largest target side of a direct adapter call
MaxDim == 4
\* largest GOMAXPROCS
MaxProcs == 3
\* largest image height in a grayScale call
MaxRows == 12
\* largest image width in a grayScale call
MaxCols == 2

-----------------------------------------------------------------------------
(* strconv.Atoi, on decimal digit sequences so that no width is lost.      *)
(* A Go int is [neg, mag]: mag is the magnitude's decimal digits, most     *)
(* significant first, without leading zeros (zero is the empty sequence).  *)

Nil == "nil"

DigitChars == {"0", "1", "2", "3", "4", "5", "6", "7", "8", "9"}

DigitVal(c) ==
    CASE c = "0" -> 0 [] c = "1" -> 1 [] c = "2" -> 2 [] c = "3" -> 3
      [] c = "4" -> 4 [] c = "5" -> 5 [] c = "6" -> 6 [] c = "7" -> 7
      [] c = "8" -> 8 [] c = "9" -> 9

RECURSIVE StripZeros(_)
StripZeros(ds) ==
    IF ds # <<>> /\ ds[1] = 0 THEN StripZeros(Tail(ds)) ELSE ds

\* a > b for magnitudes without leading zeros
RECURSIVE GtDigits(_, _)
GtDigits(a, b) ==
    IF a = <<>> THEN FALSE
    ELSE IF a[1] # b[1] THEN a[1] > b[1]
    ELSE GtDigits(Tail(a), Tail(b))

GtMag(a, b) ==
    IF Len(a) # Len(b) THEN Len(a) > Len(b) ELSE GtDigits(a, b)

\* the digits of 2^(bits-1) - 1 (neg = FALSE) and of 2^(bits-1) (neg = TRUE)
LimitMag(bits, neg) ==
    IF bits = 32
    THEN <<2,1,4,7,4,8,3,6,4>> \o (IF neg THEN <<8>> ELSE <<7>>)
    ELSE <<9,2,2,3,3,7,2,0,3,6,8,5,4,7,7,5,8,0>> \o (IF neg THEN <<8>> ELSE <<7>>)

GoZero == [neg |-> FALSE, mag |-> <<>>]

\* Atoi(s) = [val, err]: on a syntax error val is 0; on a range error val is
\* the largest magnitude int of the sign.
Atoi(s) ==
    LET signed == s # <<>> /\ s[1] \in {"+", "-"}
        neg    == s # <<>> /\ s[1] = "-"
        body   == IF signed THEN Tail(s) ELSE s
    IN  IF body = <<>> \/ \E i \in 1..Len(body) : body[i] \notin DigitChars
        THEN [val |-> GoZero, err |-> "ErrSyntax"]
        ELSE LET mag == StripZeros([i \in 1..Len(body) |-> DigitVal(body[i])])
                 lim == LimitMag(intSize, neg)
             IN  IF GtMag(mag, lim)
                 THEN [val |-> [neg |-> neg, mag |-> lim], err |-> "ErrRange"]
                 ELSE [val |-> [neg |-> neg, mag |-> mag], err |-> Nil]

\* val <= 0
GoLeqZero(v) == v.neg \/ v.mag = <<>>

\* val % m for val > 0 and a small m
RECURSIVE ModDigits(_, _, _)
ModDigits(ds, m, acc) ==
    IF ds = <<>> THEN acc ELSE ModDigits(Tail(ds), m, (acc * 10 + ds[1]) % m)

GoMod(v, m) == ModDigits(v.mag, m, 0)

\* strconv.Itoa for v >= 0, as a sequence of characters
DigitChar(d) ==
    CASE d = 0 -> "0" [] d = 1 -> "1" [] d = 2 -> "2" [] d = 3 -> "3"
      [] d = 4 -> "4" [] d = 5 -> "5" [] d = 6 -> "6" [] d = 7 -> "7"
      [] d = 8 -> "8" [] d = 9 -> "9"

RECURSIVE Itoa(_)
Itoa(v) ==
    IF v < 10 THEN <<DigitChar(v)>> ELSE Itoa(v \div 10) \o <<DigitChar(v % 10)>>

-----------------------------------------------------------------------------
(* The manipulator's parameter normalizers *)

CleanIntLimit == 10000

CleanInt(input) ==
    LET val == Atoi(input).val
    IN  IF GoLeqZero(val) THEN 0 ELSE GoMod(val, CleanIntLimit)

GetCropPointNoTopLeft(input) ==
    CASE input = "top"          -> "CropTop"
      [] input = "top,right"    -> "CropTopRight"
      [] input = "left"         -> "CropLeft"
      [] input = "right"        -> "CropRight"
      [] input = "bottom"       -> "CropBottom"
      [] input = "bottom,left"  -> "CropBottomLeft"
      [] input = "bottom,right" -> "CropBottomRight"
      [] OTHER                  -> "CropCenter"

GetCropPoint(input) ==
    CASE input = "top"          -> "CropTop"
      [] input = "top,left"     -> "CropTopLeft"
      [] input = "top,right"    -> "CropTopRight"
      [] input = "left"         -> "CropLeft"
      [] input = "right"        -> "CropRight"
      [] input = "bottom"       -> "CropBottom"
      [] input = "bottom,left"  -> "CropBottomLeft"
      [] input = "bottom,right" -> "CropBottomRight"
      [] OTHER                  -> "CropCenter"

CropPoints ==
    {"CropCenter", "CropTop", "CropTopLeft", "CropTopRight", "CropLeft",
     "CropRight", "CropBottom", "CropBottomLeft", "CropBottomRight"}

-----------------------------------------------------------------------------
(* Image bytes and decoded images.                                         *)
(* Bytes are [codec, w, h, opaque]: codec "png" or "jpeg" for an encoded   *)
(* image, "garbage" for bytes no decoder accepts, "nil" for a nil slice    *)
(* and "empty" for the buffer a failed encode leaves behind.               *)

pngType == "png"
jpgType == "jpeg"

cropDurationKey      == "cropDuration"
resizeDurationKey    == "resizeDuration"
grayScaleDurationKey == "grayScaleDuration"
decodeDurationKey    == "decodeDuration"
encodeDurationKey    == "encodeDuration"

NilBytes   == [codec |-> "nil",     w |-> 0, h |-> 0, opaque |-> FALSE]
EmptyBuf   == [codec |-> "empty",   w |-> 0, h |-> 0, opaque |-> FALSE]
Garbage    == [codec |-> "garbage", w |-> 0, h |-> 0, opaque |-> FALSE]

\* an image with no pixel is opaque: no pixel has an alpha below the maximum
MkImage(w, h, o) == [w |-> w, h |-> h, opaque |-> (w = 0 \/ h = 0 \/ o)]
NoImage == [w |-> -1, h |-> -1, opaque |-> FALSE]

\* metrics.Update(UpdateOption{Name, Type: Duration, Duration, Scope})
Metric(name, scope) == [name |-> name, scope |-> scope]

\* Opacity: true iff every pixel's alpha is fully opaque
isOpaque(img) == img.opaque

\* image.Decode with the png and jpeg decoders registered
decode(bytes) ==
    IF bytes.codec \in {pngType, jpgType}
    THEN [img |-> MkImage(bytes.w, bytes.h, bytes.opaque), f |-> bytes.codec,
          err |-> Nil, metrics |-> <<Metric(decodeDurationKey, "")>>]
    ELSE [img |-> NoImage, f |-> "", err |-> "ErrFormat", metrics |-> <<>>]

\* the format encode writes
EncodeFormatIgnoringOpacity(img, format) ==
    IF format = pngType THEN jpgType ELSE format

EncodeFormat(img, format) ==
    IF format = pngType /\ isOpaque(img) THEN jpgType ELSE format

\* encode; fail says whether the encoder (png.Encoder.Encode / jpeg.Encode)
\* returns an error
encode(img, format, fail) ==
    LET f2    == EncodeFormat(img, format)
        codec == IF f2 = pngType THEN pngType ELSE jpgType
        bytes == IF fail THEN EmptyBuf
                 ELSE [codec |-> codec, w |-> img.w, h |-> img.h,
                       opaque |-> (codec = jpgType \/ img.opaque)]
    IN  [data |-> bytes,
         err |-> IF fail THEN "ErrEncode" ELSE Nil,
         metrics |-> <<Metric(encodeDurationKey, "")>>,
         log |-> [format |-> format, opaque |-> img.opaque, codec |-> codec,
                  err |-> IF fail THEN "ErrEncode" ELSE Nil]]

\* transform.Resize(img, w, h, transform.Linear): a w x h image, or an empty
\* one when a side is not positive.  opq is the opacity of the result when
\* the source has a non-opaque pixel.
transformResize(img, w, h, opq) ==
    IF w <= 0 \/ h <= 0 \/ img.w = 0 \/ img.h = 0
    THEN MkImage(0, 0, TRUE)
    ELSE MkImage(w, h, img.opaque \/ opq)

Min2(a, b) == IF a < b THEN a ELSE b
Max2(a, b) == IF a > b THEN a ELSE b

\* image.Rect: a well-formed rectangle
ImageRect(x0, y0, x1, y1) ==
    [x0 |-> Min2(x0, x1), y0 |-> Min2(y0, y1),
     x1 |-> Max2(x0, x1), y1 |-> Max2(y0, y1)]

\* RGBA.SubImage(r): the part of img (bounds (0,0)-(w,h)) inside r
SubImage(img, r, opq) ==
    LET x0 == Max2(r.x0, 0)
        y0 == Max2(r.y0, 0)
        x1 == Min2(r.x1, img.w)
        y1 == Min2(r.y1, img.h)
    IN  IF x0 >= x1 \/ y0 >= y1 THEN MkImage(0, 0, TRUE)
        ELSE MkImage(x1 - x0, y1 - y0, img.opaque \/ opq)

-----------------------------------------------------------------------------
(* Geometry Engine *)

\* cover: scale by the larger of width/ow and height/oh, truncating
getResizeWidthAndHeightForCrop(width, height, ow, oh) ==
    IF width * oh >= height * ow
    THEN <<width, (width * oh) \div ow>>
    ELSE <<(height * ow) \div oh, height>>

\* contain: a zero side is derived from the aspect ratio (rounded); both
\* zero is the original size; both given is the exact size
getResizeWidthAndHeight(width, height, ow, oh) ==
    IF width = 0 /\ height = 0 THEN <<ow, oh>>
    ELSE IF height = 0 THEN <<width, (2 * width * oh + ow) \div (2 * ow)>>
    ELSE IF width = 0 THEN <<(2 * height * ow + oh) \div (2 * oh), height>>
    ELSE <<width, height>>

\* the crop origin for an anchor
getStartingPointForCrop(w, h, width, height, pt) ==
    LET cx == (w - width) \div 2
        cy == (h - height) \div 2
        rx == w - width
        by == h - height
    IN  CASE pt = "CropTop"         -> <<cx, 0>>
          [] pt = "CropBottom"      -> <<cx, by>>
          [] pt = "CropLeft"        -> <<0, cy>>
          [] pt = "CropRight"       -> <<rx, cy>>
          [] pt = "CropTopLeft"     -> <<0, 0>>
          [] pt = "CropTopRight"    -> <<rx, 0>>
          [] pt = "CropBottomLeft"  -> <<0, by>>
          [] pt = "CropBottomRight" -> <<rx, by>>
          [] OTHER                  -> <<cx, cy>>

-----------------------------------------------------------------------------
(* The BildProcessor adapters.  Each call returns                           *)
(*   data, err : the Go results                                             *)
(*   metrics   : the metrics.Update calls it made, in order                 *)
(*   encs      : the encode calls it made                                   *)
(*   xform     : the number of transform.Resize calls it made               *)
(*   orig, dims, rect, out : the decoded size, the computed resize size,    *)
(*               the crop rectangle and the size of the encoded image       *)
(* encFail and opq are the outcomes the image library decides.              *)

NoRect == [x0 |-> 0, y0 |-> 0, x1 |-> 0, y1 |-> 0]

\* the early return after a failed decode
DecodeFailed(d) ==
    [data |-> NilBytes, err |-> d.err, metrics |-> d.metrics, encs |-> <<>>,
     xform |-> 0, orig |-> <<0, 0>>, dims |-> <<0, 0>>, rect |-> NoRect,
     out |-> <<0, 0>>]

Returned(d, e, timed, xform, dims, rect, img) ==
    [data |-> e.data, err |-> e.err,
     metrics |-> d.metrics \o timed \o e.metrics, encs |-> <<e.log>>,
     xform |-> xform, orig |-> <<d.img.w, d.img.h>>, dims |-> dims,
     rect |-> rect, out |-> <<img.w, img.h>>]

CropRectNoOffset(x0, y0, width, height) == ImageRect(x0, y0, width, height)

CropRect(x0, y0, width, height) == ImageRect(x0, y0, width + x0, height + y0)

ResizeNeededBothDiffer(w, h, initW, initH) == w # initW /\ h # initH

ResizeNeeded(w, h, initW, initH) == w # initW \/ h # initH

\* package native of github.com/gojek/darkroom
Crop(input, width, height, pt, encFail, opq) ==
    LET d == decode(input) IN
    IF d.err # Nil THEN DecodeFailed(d)
    ELSE
    LET wh   == getResizeWidthAndHeightForCrop(width, height, d.img.w, d.img.h)
        img1 == transformResize(d.img, wh[1], wh[2], opq)
        p0   == getStartingPointForCrop(wh[1], wh[2], width, height, pt)
        rect == CropRect(p0[1], p0[2], width, height)
        img2 == SubImage(img1, rect, opq)
    IN  Returned(d, encode(img2, d.f, encFail), <<>>, 1, wh, rect, img2)

Resize(input, width, height, encFail, opq) ==
    LET d == decode(input) IN
    IF d.err # Nil THEN DecodeFailed(d)
    ELSE
    LET initW == d.img.w
        initH == d.img.h
        wh    == getResizeWidthAndHeight(width, height, initW, initH)
        need  == ResizeNeeded(wh[1], wh[2], initW, initH)
        img1  == IF need THEN transformResize(d.img, wh[1], wh[2], opq)
                 ELSE d.img
    IN  Returned(d, encode(img1, d.f, encFail), <<>>, IF need THEN 1 ELSE 0,
                 wh, NoRect, img1)

\* the image grayScale returns: same size, every pixel's alpha kept
grayScaleImage(img) ==
    IF img.w = 0 \/ img.h = 0 THEN MkImage(0, 0, TRUE) ELSE img

GrayScale(input, encFail) ==
    LET d == decode(input) IN
    IF d.err # Nil THEN DecodeFailed(d)
    ELSE
    LET img1 == grayScaleImage(d.img)
    IN  Returned(d, encode(img1, d.f, encFail), <<>>, 0,
                 <<d.img.w, d.img.h>>, NoRect, img1)

\* package native of darkroom/core: the transform is timed inside the adapter
Crop_core(input, width, height, pt, encFail, opq) ==
    LET d == decode(input) IN
    IF d.err # Nil THEN DecodeFailed(d)
    ELSE
    LET wh   == getResizeWidthAndHeightForCrop(width, height, d.img.w, d.img.h)
        img1 == transformResize(d.img, wh[1], wh[2], opq)
        p0   == getStartingPointForCrop(wh[1], wh[2], width, height, pt)
        rect == CropRect(p0[1], p0[2], width, height)
        img2 == SubImage(img1, rect, opq)
    IN  Returned(d, encode(img2, d.f, encFail),
                 <<Metric(cropDurationKey, "")>>, 1, wh, rect, img2)

Resize_core(input, width, height, encFail, opq) ==
    LET d == decode(input) IN
    IF d.err # Nil THEN DecodeFailed(d)
    ELSE
    LET initW == d.img.w
        initH == d.img.h
        wh    == getResizeWidthAndHeight(width, height, initW, initH)
        need  == ResizeNeeded(wh[1], wh[2], initW, initH)
        img1  == IF need THEN transformResize(d.img, wh[1], wh[2], opq)
                 ELSE d.img
    IN  Returned(d, encode(img1, d.f, encFail),
                 IF need THEN <<Metric(resizeDurationKey, "")>> ELSE <<>>,
                 IF need THEN 1 ELSE 0, wh, NoRect, img1)

\* effect.Grayscale keeps the size and every pixel's alpha
GrayScale_core(input, encFail) ==
    LET d == decode(input) IN
    IF d.err # Nil THEN DecodeFailed(d)
    ELSE Returned(d, encode(d.img, d.f, encFail),
                  <<Metric(grayScaleDurationKey, "")>>, 0,
                  <<d.img.w, d.img.h>>, NoRect, d.img)

Impls == {"native", "core"}

\* m.processor.Crop / Resize / GrayScale: the call through the interface
processorCrop(p, input, width, height, pt, encFail, opq) ==
    IF p = "native" THEN Crop(input, width, height, pt, encFail, opq)
    ELSE Crop_core(input, width, height, pt, encFail, opq)

processorResize(p, input, width, height, encFail, opq) ==
    IF p = "native" THEN Resize(input, width, height, encFail, opq)
    ELSE Resize_core(input, width, height, encFail, opq)

processorGrayScale(p, input, encFail) ==
    IF p = "native" THEN GrayScale(input, encFail)
    ELSE GrayScale_core(input, encFail)

-----------------------------------------------------------------------------
(* manipulator.Process *)

crop         == "crop"
blackHexCode == "000000"

\* params[fit] == crop
fitIsCrop(params) == params.fit = crop

resizeWantedIgnoringFit(params) ==
    CleanInt(params.w) # 0 \/ CleanInt(params.h) # 0

\* len(params[fit]) == 0 && (CleanInt(params[width]) != 0 || CleanInt(params[height]) != 0)
resizeWanted(params) ==
    params.fit = "" /\ (CleanInt(params.w) # 0 \/ CleanInt(params.h) # 0)

\* params[mono] == blackHexCode
monoWanted(params) == params.mono = blackHexCode

Call(op, e, width, height, pt) ==
    [op |-> op, err |-> e, width |-> width, height |-> height, point |-> pt]

\* the metrics.Update guarded by err == nil
OnSuccess(e, key) ==
    IF e = Nil THEN <<Metric(key, spec.Scope)>> ELSE <<>>

\* lines 49-54
ProcessCrop ==
    /\ pc = "sizing"
    /\ fitIsCrop(spec.Params)
    /\ \E encFail \in BOOLEAN, opq \in BOOLEAN :
         LET width  == CleanInt(spec.Params.w)
             height == CleanInt(spec.Params.h)
             pt     == GetCropPoint(spec.Params.crop)
             r      == processorCrop(impl, data, width, height, pt, encFail, opq)
         IN  /\ data' = r.data
             /\ err' = r.err
             /\ calls' = Append(calls, Call("Crop", r.err, width, height, pt))
             /\ metricsLog' = metricsLog \o r.metrics \o OnSuccess(r.err, cropDurationKey)
             /\ encodes' = encodes \o r.encs
    /\ pc' = "mono"
    /\ UNCHANGED <<impl, spec, ret>>

\* lines 55-61
ProcessResize ==
    /\ pc = "sizing"
    /\ ~fitIsCrop(spec.Params)
    /\ resizeWanted(spec.Params)
    /\ \E encFail \in BOOLEAN, opq \in BOOLEAN :
         LET width  == CleanInt(spec.Params.w)
             height == CleanInt(spec.Params.h)
             r      == processorResize(impl, data, width, height, encFail, opq)
         IN  /\ data' = r.data
             /\ err' = r.err
             /\ calls' = Append(calls, Call("Resize", r.err, width, height, ""))
             /\ metricsLog' = metricsLog \o r.metrics \o OnSuccess(r.err, resizeDurationKey)
             /\ encodes' = encodes \o r.encs
    /\ pc' = "mono"
    /\ UNCHANGED <<impl, spec, ret>>

\* neither branch of lines 49-61 is taken
ProcessNoSizing ==
    /\ pc = "sizing"
    /\ ~fitIsCrop(spec.Params)
    /\ ~resizeWanted(spec.Params)
    /\ pc' = "mono"
    /\ UNCHANGED <<impl, spec, data, err, calls, metricsLog, encodes, ret>>

\* lines 62-68
ProcessGrayScale ==
    /\ pc = "mono"
    /\ monoWanted(spec.Params)
    /\ \E encFail \in BOOLEAN :
         LET r == processorGrayScale(impl, data, encFail)
         IN  /\ data' = r.data
             /\ err' = r.err
             /\ calls' = Append(calls, Call("GrayScale", r.err, 0, 0, ""))
             /\ metricsLog' = metricsLog \o r.metrics \o OnSuccess(r.err, grayScaleDurationKey)
             /\ encodes' = encodes \o r.encs
    /\ pc' = "return"
    /\ UNCHANGED <<impl, spec, ret>>

ProcessNoMono ==
    /\ pc = "mono"
    /\ ~monoWanted(spec.Params)
    /\ pc' = "return"
    /\ UNCHANGED <<impl, spec, data, err, calls, metricsLog, encodes, ret>>

\* line 69
ProcessReturn ==
    /\ pc = "return"
    /\ ret' = [data |-> data, err |-> err]
    /\ pc' = "done"
    /\ UNCHANGED <<impl, spec, data, err, calls, metricsLog, encodes>>

\* the parameter bags and images of the model
ParamNumbers ==
    { <<>>, <<"0">>, <<"2">>, <<"5">>, <<"a">>, <<"-", "3">>,
      <<"1", "0", "0", "0", "3">> }
ParamFits   == {"", "crop", "fill"}
ParamCrops  == {"", "top", "bottom,right", "TOP"}
ParamMonos  == {"", "000000", "ffffff"}
ParamBags ==
    [w : ParamNumbers, h : ParamNumbers, fit : ParamFits, crop : ParamCrops,
     mono : ParamMonos]
InputImages ==
    { Garbage,
      [codec |-> "png",  w |-> 4, h |-> 2, opaque |-> TRUE],
      [codec |-> "png",  w |-> 4, h |-> 2, opaque |-> FALSE],
      [codec |-> "png",  w |-> 3, h |-> 5, opaque |-> FALSE],
      [codec |-> "jpeg", w |-> 2, h |-> 3, opaque |-> TRUE] }

NoRet == [data |-> NilBytes, err |-> "unset"]

ProcInit ==
    /\ impl \in Impls
    /\ spec \in [Scope : {"scope"}, ImageData : InputImages, Params : ParamBags]
    /\ pc = "sizing"
    /\ data = spec.ImageData
    /\ err = Nil
    /\ calls = <<>>
    /\ metricsLog = <<>>
    /\ encodes = <<>>
    /\ ret = NoRet

ProcOff ==
    /\ impl = "native"
    /\ spec = [Scope |-> "", ImageData |-> NilBytes,
               Params |-> [w |-> <<>>, h |-> <<>>, fit |-> "", crop |-> "", mono |-> ""]]
    /\ pc = "off"
    /\ data = NilBytes
    /\ err = Nil
    /\ calls = <<>>
    /\ metricsLog = <<>>
    /\ encodes = <<>>
    /\ ret = NoRet

-----------------------------------------------------------------------------
(* Calls of the normalizers on their own *)

NumChars == {"0", "1", "5", "9", "-", "+", "a"}

\* digit strings around the limits of a 32-bit and a 64-bit int
LongNumbers ==
    { <<"1","0","0","0","5">>,
      <<"2","1","4","7","4","8","3","6","4","7">>,
      <<"2","1","4","7","4","8","3","6","4","8">>,
      <<"-","2","1","4","7","4","8","3","6","4","9">>,
      <<"9","2","2","3","3","7","2","0","3","6","8","5","4","7","7","5","8","0","7">>,
      <<"9","2","2","3","3","7","2","0","3","6","8","5","4","7","7","5","8","0","8">>,
      <<"-","9","2","2","3","3","7","2","0","3","6","8","5","4","7","7","5","8","0","9">>,
      <<"9","9","9","9","9","9","9","9","9","9","9","9","9","9","9","9","9","9","9","9">> }

NumStrings ==
    UNION { [1..n -> NumChars] : n \in 0..MaxLen } \cup LongNumbers

AnchorStrings ==
    {"top", "top,left", "top,right", "left", "right", "bottom", "bottom,left",
     "bottom,right", "", "TOP", "center", "top, left", "left,top"}

IntSizes == {32, 64}

NormInit ==
    /\ \/ fn = "CleanInt" /\ numArg \in NumStrings /\ numVal = -1 /\ anchorArg = ""
       \/ /\ fn = "CleanInt" /\ numVal \in 1..(CleanIntLimit - 1) /\ anchorArg = ""
          /\ numArg = Itoa(numVal)
       \/ /\ fn = "GetCropPoint" /\ numArg = <<>> /\ numVal = -1
          /\ anchorArg \in AnchorStrings
    /\ normPc = "call"
    /\ cleaned = -1
    /\ point = ""

NormOff ==
    /\ fn = "none" /\ numArg = <<>> /\ numVal = -1 /\ anchorArg = "" /\ normPc = "off"
    /\ cleaned = -1 /\ point = ""

CallCleanInt ==
    /\ normPc = "call" /\ fn = "CleanInt"
    /\ cleaned' = CleanInt(numArg)
    /\ normPc' = "ret"
    /\ UNCHANGED <<fn, numArg, numVal, anchorArg, point>>

CallGetCropPoint ==
    /\ normPc = "call" /\ fn = "GetCropPoint"
    /\ point' = GetCropPoint(anchorArg)
    /\ normPc' = "ret"
    /\ UNCHANGED <<fn, numArg, numVal, anchorArg, cleaned>>

-----------------------------------------------------------------------------
(* Calls of the adapters' Crop and Resize on their own *)

AdapterImages ==
    { Garbage } \cup
    { [codec |-> c, w |-> w, h |-> h, opaque |-> (c = "jpeg")] :
        c \in {"png", "jpeg"}, w \in 1..MaxDim, h \in 1..MaxDim }

AdInit ==
    /\ adArgs \in
         [op : {"Crop"}, impl : Impls, input : AdapterImages,
          width : 0..MaxDim, height : 0..MaxDim, point : CropPoints]
         \cup
         [op : {"Resize"}, impl : Impls, input : AdapterImages,
          width : 0..MaxDim, height : 0..MaxDim, point : {""}]
    /\ adPc = "call"
    /\ adRes = DecodeFailed([err |-> "unset", metrics |-> <<>>])

AdOff ==
    /\ adArgs = [op |-> "none", impl |-> "native", input |-> NilBytes,
                 width |-> 0, height |-> 0, point |-> ""]
    /\ adPc = "off"
    /\ adRes = DecodeFailed([err |-> "unset", metrics |-> <<>>])

CallCrop ==
    /\ adPc = "call" /\ adArgs.op = "Crop"
    /\ \E encFail \in BOOLEAN, opq \in BOOLEAN :
         adRes' = processorCrop(adArgs.impl, adArgs.input, adArgs.width,
                                adArgs.height, adArgs.point, encFail, opq)
    /\ adPc' = "ret"
    /\ UNCHANGED adArgs

CallResize ==
    /\ adPc = "call" /\ adArgs.op = "Resize"
    /\ \E encFail \in BOOLEAN, opq \in BOOLEAN :
         adRes' = processorResize(adArgs.impl, adArgs.input, adArgs.width,
                                  adArgs.height, encFail, opq)
    /\ adPc' = "ret"
    /\ UNCHANGED adArgs

-----------------------------------------------------------------------------
(* grayScale: parallel.Line hands row ranges to goroutines; a worker step   *)
(* converts one pixel (one src.At and one dst.Set).                         *)

Pixel(r, g, b, a) == [r |-> r, g |-> g, b |-> b, a |-> a]
ZeroPixel == Pixel(0, 0, 0, 0)

\* alpha-premultiplied source pixels
Palette == << Pixel(255, 0, 0, 255), Pixel(10, 100, 30, 128), Pixel(0, 0, 0, 0),
              Pixel(255, 255, 255, 255) >>

\* color.GrayModel.Convert(c).Y for c = color.RGBA{R, G, B, A}:
\*   r = R * 257 (and g, b alike); y = (19595 r + 38470 g + 7471 b + 2^15) >> 24.
\* With S = 19595 R + 38470 G + 7471 B the sum is 256 S + S + 2^15, so that
\*   y = (S + (S + 2^15) \div 2^8) \div 2^16
GrayY(c) ==
    LET S == 19595 * c.r + 38470 * c.g + 7471 * c.b
    IN  (S + (S + 32768) \div 256) \div 65536

\* color.RGBA{R: g, G: g, B: g, A: srcPix.A}
GrayPixel(c) == LET g == GrayY(c) IN Pixel(g, g, g, c.a)

Pixels(w, h) == (0..(w - 1)) \X (0..(h - 1))

\* the loop condition of the row loop
rowInRangeInclusive(y, end) == y <= end

rowInRange(y, end) == y < end

\* parallel.Line runs fn(0, length) itself unless each part has more than
\* procs rows
lineIsSequential(length, np) ==
    LET partSize == length \div np IN np <= 1 \/ partSize <= np

Worker(start, end) == [start |-> start, end |-> end, y |-> start, x |-> 0, done |-> FALSE]

GraySources ==
    { [w |-> w, h |-> h,
       pix |-> [p \in Pixels(w, h) |-> Palette[((p[1] + 2 * p[2] + k) % Len(Palette)) + 1]]] :
        w \in 0..MaxCols, h \in 0..MaxRows, k \in 0..(Len(Palette) - 1) }

GrayInit ==
    /\ procs \in 1..MaxProcs
    /\ src \in GraySources
    /\ dst = [p \in {} |-> ZeroPixel]
    /\ writes = [p \in {} |-> <<>>]
    /\ counter = 0
    /\ workers = <<>>
    /\ grayPc = "start"

GrayOff ==
    /\ procs = 1
    /\ src = [w |-> 0, h |-> 0, pix |-> [p \in {} |-> ZeroPixel]]
    /\ dst = [p \in {} |-> ZeroPixel]
    /\ writes = [p \in {} |-> <<>>]
    /\ counter = 0
    /\ workers = <<>>
    /\ grayPc = "off"

\* lines 114-116: an empty image is returned as an empty RGBA
GrayEmpty ==
    /\ grayPc = "start"
    /\ (src.w = 0 \/ src.h = 0)
    /\ grayPc' = "done"
    /\ UNCHANGED <<procs, src, dst, writes, counter, workers>>

\* line 117 and the entry of parallel.Line
GrayStart ==
    /\ grayPc = "start"
    /\ ~(src.w = 0 \/ src.h = 0)
    /\ dst' = [p \in Pixels(src.w, src.h) |-> ZeroPixel]
    /\ writes' = [p \in Pixels(src.w, src.h) |-> <<>>]
    /\ counter' = src.h
    /\ IF lineIsSequential(src.h, procs)
       THEN workers' = <<Worker(0, src.h)>> /\ grayPc' = "wait"
       ELSE workers' = <<>> /\ grayPc' = "spawn"
    /\ UNCHANGED <<procs, src>>

\* one turn of parallel.Line's loop: go fn(start, end)
GraySpawn ==
    /\ grayPc = "spawn"
    /\ counter > 0
    /\ LET partSize == src.h \div procs
           start    == IF counter - partSize < 0 THEN 0 ELSE counter - partSize
       IN  /\ workers' = Append(workers, Worker(start, counter))
           /\ counter' = counter - partSize
    /\ UNCHANGED <<procs, src, dst, writes, grayPc>>

\* the loop ends: wg.Wait()
GraySpawned ==
    /\ grayPc = "spawn"
    /\ counter <= 0
    /\ grayPc' = "wait"
    /\ UNCHANGED <<procs, src, dst, writes, counter, workers>>

\* lines 119-125: worker i converts its next pixel, or leaves its loop.
\* src.At outside the bounds is the zero colour; dst.Set outside is ignored.
GrayStep(i) ==
    /\ grayPc \in {"spawn", "wait"}
    /\ ~workers[i].done
    /\ LET wk == workers[i]
           p  == <<wk.x, wk.y>>
       IN  IF rowInRange(wk.y, wk.end)
           THEN LET srcPix == IF p \in DOMAIN src.pix THEN src.pix[p] ELSE ZeroPixel
                    nx     == wk.x + 1
                IN  /\ IF p \in DOMAIN dst
                       THEN /\ dst' = [dst EXCEPT ![p] = GrayPixel(srcPix)]
                            /\ writes' = [writes EXCEPT ![p] = Append(@, i)]
                       ELSE UNCHANGED <<dst, writes>>
                    /\ workers' = [workers EXCEPT ![i] =
                                     IF nx < src.w THEN [wk EXCEPT !.x = nx]
                                     ELSE [wk EXCEPT !.x = 0, !.y = wk.y + 1]]
           ELSE /\ workers' = [workers EXCEPT ![i].done = TRUE]
                /\ UNCHANGED <<dst, writes>>
    /\ UNCHANGED <<procs, src, counter, grayPc>>

\* wg.Wait() returns (or fn(0, length) returned); line 127
GrayReturn ==
    /\ grayPc = "wait"
    /\ \A i \in 1..Len(workers) : workers[i].done
    /\ grayPc' = "done"
    /\ UNCHANGED <<procs, src, dst, writes, counter, workers>>

-----------------------------------------------------------------------------
(* Specifications *)

\* one Process call
Init == intSize = 64 /\ ProcInit /\ NormOff /\ AdOff /\ GrayOff

Next ==
    \/ ProcessCrop /\ UNCHANGED <<intSize, normVars, adVars, grayVars>>
    \/ ProcessResize /\ UNCHANGED <<intSize, normVars, adVars, grayVars>>
    \/ ProcessNoSizing /\ UNCHANGED <<intSize, normVars, adVars, grayVars>>
    \/ ProcessGrayScale /\ UNCHANGED <<intSize, normVars, adVars, grayVars>>
    \/ ProcessNoMono /\ UNCHANGED <<intSize, normVars, adVars, grayVars>>
    \/ ProcessReturn /\ UNCHANGED <<intSize, normVars, adVars, grayVars>>

Spec == Init /\ [][Next]_vars

\* one call of CleanInt or GetCropPoint
InitNorm == intSize \in IntSizes /\ NormInit /\ ProcOff /\ AdOff /\ GrayOff

NextNorm ==
    \/ CallCleanInt /\ UNCHANGED <<intSize, procVars, adVars, grayVars>>
    \/ CallGetCropPoint /\ UNCHANGED <<intSize, procVars, adVars, grayVars>>

SpecNorm == InitNorm /\ [][NextNorm]_vars

\* one call of an adapter's Crop or Resize
InitAdapter == intSize = 64 /\ AdInit /\ ProcOff /\ NormOff /\ GrayOff

NextAdapter ==
    \/ CallCrop /\ UNCHANGED <<intSize, procVars, normVars, grayVars>>
    \/ CallResize /\ UNCHANGED <<intSize, procVars, normVars, grayVars>>

SpecAdapter == InitAdapter /\ [][NextAdapter]_vars

\* one call of grayScale
InitGray == intSize = 64 /\ GrayInit /\ ProcOff /\ NormOff /\ AdOff

NextGray ==
    \/ GrayEmpty /\ UNCHANGED <<intSize, procVars, normVars, adVars>>
    \/ GrayStart /\ UNCHANGED <<intSize, procVars, normVars, adVars>>
    \/ GraySpawn /\ UNCHANGED <<intSize, procVars, normVars, adVars>>
    \/ GraySpawned /\ UNCHANGED <<intSize, procVars, normVars, adVars>>
    \/ (\E i \in 1..Len(workers) : GrayStep(i))
         /\ UNCHANGED <<intSize, procVars, normVars, adVars>>
    \/ GrayReturn /\ UNCHANGED <<intSize, procVars, normVars, adVars>>

SpecGray == InitGray /\ [][NextGray]_vars

-----------------------------------------------------------------------------
(* Properties of Process (specification Spec) *)

Failed(i) == calls[i].err # Nil
SizingCalls == { i \in 1..Len(calls) : calls[i].op \in {"Crop", "Resize"} }
HasCall(op) == \E i \in 1..Len(calls) : calls[i].op = op
StepKey(op) ==
    CASE op = "Crop" -> cropDurationKey
      [] op = "Resize" -> resizeDurationKey
      [] op = "GrayScale" -> grayScaleDurationKey

\* C1: once a transform call of Process has returned an error, Process makes
\* no further transform call: a failed call is always the last call made.
C1_NoCallAfterFailure ==
    \A i \in 1..Len(calls) : Failed(i) => i = Len(calls)

\* C2: when a transform call of Process returns an error, Process returns
\* the error of the first failing call.
C2_FirstErrorReturned ==
    pc = "done" =>
        \A i \in 1..Len(calls) :
            (Failed(i) /\ \A j \in 1..(i - 1) : ~Failed(j)) => ret.err = calls[i].err

\* C3: a Process call invokes at most one of Crop and Resize; with fit = "crop"
\* Resize is not invoked; with fit empty and both cleaned sizes 0, or with any
\* other non-empty fit, neither is invoked; and when neither ran and mono is
\* not "000000", Process returns spec.ImageData and a nil error.
C3_SizingExclusive ==
    /\ Cardinality(SizingCalls) <= 1
    /\ spec.Params.fit = "crop" => ~HasCall("Resize")
    /\ (spec.Params.fit = "" /\ CleanInt(spec.Params.w) = 0 /\ CleanInt(spec.Params.h) = 0)
         => SizingCalls = {}
    /\ spec.Params.fit \notin {"", "crop"} => SizingCalls = {}
    /\ (pc = "done" /\ SizingCalls = {} /\ spec.Params.mono # "000000")
         => ret = [data |-> spec.ImageData, err |-> Nil]

\* a finished call with fit = "crop" and a width given, in which Crop ran
C3_Witness ==
    /\ pc = "done"
    /\ spec.Params.fit = "crop"
    /\ CleanInt(spec.Params.w) # 0
    /\ HasCall("Crop")
    /\ spec.Params.mono = "000000"

\* C5: no duration metric of a step (cropDuration, resizeDuration,
\* grayScaleDuration) is recorded for a step whose call returned an error.
C5_NoMetricForFailedStep ==
    \A i \in 1..Len(calls) :
        Failed(i) =>
            \A k \in 1..Len(metricsLog) : metricsLog[k].name # StepKey(calls[i].op)

\* C6: encode writes PNG exactly for a png format tag and a non-opaque image
\* and JPEG otherwise, on every encode call; the second step of a Process call
\* decodes the format the first step wrote.
C6_CodecRule ==
    /\ \A i \in 1..Len(encodes) :
         encodes[i].codec =
            IF encodes[i].format = "png" /\ ~encodes[i].opaque THEN "png" ELSE "jpeg"
    /\ Len(encodes) = 2 => encodes[2].format = encodes[1].codec
    /\ (Len(encodes) > 0 /\ err = Nil /\ pc # "sizing")
         => data.codec = encodes[Len(encodes)].codec

\* an opaque PNG went through two steps: the second one saw a jpeg
C6_Witness ==
    /\ pc = "done"
    /\ Len(encodes) = 2
    /\ encodes[1].format = "png" /\ encodes[1].opaque
    /\ encodes[2].format = "jpeg"

-----------------------------------------------------------------------------
(* Properties of the normalizers (specification SpecNorm) *)

\* C4: CleanInt returns 0 on every parse failure (syntax or range) and for
\* every value <= 0, the value mod 10000 otherwise; its result is in 0..9999;
\* CleanInt(str(v)) = v for 0 < v < 10000; CleanInt("10005") = 5.
C4_CleanIntContract ==
    (normPc = "ret" /\ fn = "CleanInt") =>
        LET a == Atoi(numArg) IN
        /\ a.err # Nil => cleaned = 0
        /\ GoLeqZero(a.val) => cleaned = 0
        /\ (a.err = Nil /\ ~GoLeqZero(a.val)) => cleaned = GoMod(a.val, 10000)
        /\ cleaned \in 0..9999
        /\ numVal \in 1..9999 => cleaned = numVal
        /\ numArg = <<"1", "0", "0", "0", "5">> => cleaned = 5

\* C8: GetCropPoint maps each of the eight anchor strings to its own anchor
\* and every other string to Center.
C8_GetCropPointTable ==
    (normPc = "ret" /\ fn = "GetCropPoint") =>
        /\ anchorArg = "top"          => point = "CropTop"
        /\ anchorArg = "top,left"     => point = "CropTopLeft"
        /\ anchorArg = "top,right"    => point = "CropTopRight"
        /\ anchorArg = "left"         => point = "CropLeft"
        /\ anchorArg = "right"        => point = "CropRight"
        /\ anchorArg = "bottom"       => point = "CropBottom"
        /\ anchorArg = "bottom,left"  => point = "CropBottomLeft"
        /\ anchorArg = "bottom,right" => point = "CropBottomRight"
        /\ anchorArg \notin {"top", "top,left", "top,right", "left", "right",
                             "bottom", "bottom,left", "bottom,right"}
             => point = "CropCenter"

C8_Witness ==
    normPc = "ret" /\ fn = "GetCropPoint" /\ anchorArg = "top,left"
      /\ point = "CropTopLeft"

-----------------------------------------------------------------------------
(* Properties of the adapters (specification SpecAdapter) *)

Decoded == adPc = "ret" /\ adRes.encs # <<>>

\* C7: for a decoded source and a target width > 0 and height > 0, Crop's
\* rectangle is (x0, y0, x0 + width, y0 + height), lies inside the
\* cover-resized image (w, h), and the extracted image is width x height.
C7_CropRectInside ==
    (Decoded /\ adArgs.op = "Crop" /\ adArgs.width > 0 /\ adArgs.height > 0) =>
        LET w == adRes.dims[1]
            h == adRes.dims[2]
            r == adRes.rect
        IN  /\ w >= adArgs.width /\ h >= adArgs.height
            /\ 0 <= r.x0 /\ r.x0 <= w - adArgs.width
            /\ 0 <= r.y0 /\ r.y0 <= h - adArgs.height
            /\ r.x1 = r.x0 + adArgs.width /\ r.y1 = r.y0 + adArgs.height
            /\ adRes.out = <<adArgs.width, adArgs.height>>

\* a crop anchored bottom-right whose origin is not the corner of the image
C7_Witness ==
    /\ Decoded /\ adArgs.op = "Crop" /\ adArgs.point = "CropBottomRight"
    /\ adArgs.width > 0 /\ adArgs.height > 0
    /\ adRes.rect.x0 > 0
    /\ adRes.out = <<adArgs.width, adArgs.height>>

\* C9: Resize calls transform.Resize iff the computed size differs from the
\* decoded size; Resize(img, 0, 0) does not call it, decodes and encodes once,
\* and its output has the original size.
C9_ResizeOnlyWhenNeeded ==
    (Decoded /\ adArgs.op = "Resize") =>
        /\ adRes.xform \in {0, 1}
        /\ adRes.xform = 1 <=> adRes.dims # adRes.orig
        /\ (adArgs.width = 0 /\ adArgs.height = 0) =>
              /\ adRes.xform = 0
              /\ adRes.out = adRes.orig
              /\ Len(adRes.encs) = 1
              /\ adRes.metrics[1].name = decodeDurationKey
              /\ adRes.err = Nil => <<adRes.data.w, adRes.data.h>> = adRes.orig

\* a resize that changes only one side did call the transform
C9_Witness ==
    /\ Decoded /\ adArgs.op = "Resize"
    /\ adRes.xform = 1
    /\ adRes.dims[1] = adRes.orig[1] /\ adRes.dims[2] # adRes.orig[2]

-----------------------------------------------------------------------------
(* Properties of grayScale (specification SpecGray) *)

InRange(i, y) == workers[i].start <= y /\ y < workers[i].end

C10_State ==
    grayPc \in {"spawn", "wait", "done"} =>
        \* the ranges are pairwise disjoint
        /\ \A i, j \in 1..Len(workers) :
             i # j => (workers[i].end <= workers[j].start
                        \/ workers[j].end <= workers[i].start)
        \* once all are handed out they cover every row
        /\ (grayPc \in {"wait", "done"} /\ src.h > 0 /\ src.w > 0) =>
             \A y \in 0..(src.h - 1) : \E i \in 1..Len(workers) : InRange(i, y)
        \* a pixel is written at most once, by the worker that owns its row
        /\ \A p \in DOMAIN dst :
             /\ Len(writes[p]) <= 1
             /\ \A k \in 1..Len(writes[p]) : InRange(writes[p][k], p[2])
             /\ writes[p] = <<>> => dst[p] = ZeroPixel
        \* at the end every pixel was written once and is the gray pixel
        /\ grayPc = "done" =>
             /\ DOMAIN dst = DOMAIN src.pix
             /\ \A p \in DOMAIN dst :
                  /\ Len(writes[p]) = 1
                  /\ dst[p] = GrayPixel(src.pix[p])

\* C10: under every interleaving the row ranges are disjoint and cover all
\* rows, each worker writes only the destination pixels of its rows, every
\* destination pixel is written exactly once with the gray value and the
\* source alpha, and the source is never written.
C10_DisjointRows == [](C10_State) /\ [][src' = src]_vars

\* three workers finished a 12-row image
C10_Witness ==
    /\ grayPc = "done"
    /\ Len(workers) = 3
    /\ \A p \in DOMAIN dst : Len(writes[p]) = 1
    /\ \E p \in DOMAIN dst : dst[p] = Pixel(65, 65, 65, 128)

=============================================================================
